---- MODULE Spec2Model ----
(***************************************************************************)
(* WebP -> JPEG converter (src/main.py): the upload pipeline of convert(), *)
(* the three archive backends, output naming and the response selection.   *)
(*                                                                         *)
(* File names are sequences of one-character strings, so that lower(),     *)
(* endswith(), os.path.basename and os.path.splitext are computed the way  *)
(* the library computes them.  Byte strings are records tagged with what   *)
(* a decoder finds in them.  A Python call is an operator returning a      *)
(* result record [raised, value]; try/except is a test of .raised.         *)
(***************************************************************************)
EXTENDS Integers, Sequences, FiniteSets, TLC

VARIABLES
    files,              \* convert: request.files.getlist('files')
    idx,                \* convert: number of items the for loop has consumed
    converted_images,   \* convert: the aggregate list of (name, jpeg) pairs
    response,           \* convert: what the route returns
    pc,                 \* convert: "start" | "loop" | "done"
    listing,            \* extraction runs: the archive's entry list
    rets,               \* extraction runs: backend -> result of extract_webp_from_archive
    intact,             \* extraction runs: the container can be opened
    src_name,           \* naming runs: the source file or entry name
    out_names           \* naming runs: path -> produced output name

vars == <<files, idx, converted_images, response, pc, listing, intact, rets, src_name,
          out_names>>

-----------------------------------------------------------------------------
(* Bounds of the model *)

MaxFiles == 3       \* items in one upload
MaxEntries == 3     \* entries of an archive in the extraction runs
MaxStem == 3        \* characters before the extension in the naming runs

-----------------------------------------------------------------------------
(* Configuration constants, src/main.py:24-27 *)

JPEG_QUALITY == 100
DOT_ZIP == <<".", "z", "i", "p">>
DOT_RAR == <<".", "r", "a", "r">>
DOT_7Z == <<".", "7", "z">>
SUPPORTED_ARCHIVES == <<DOT_ZIP, DOT_RAR, DOT_7Z>>
WEBP_EXTENSION == <<".", "w", "e", "b", "p">>
DOT_JPG == <<".", "j", "p", "g">>

-----------------------------------------------------------------------------
(* Python str primitives the program uses *)

UpperChars == <<"A","B","C","D","E","F","G","H","I","J","K","L","M",
                "N","O","P","Q","R","S","T","U","V","W","X","Y","Z">>
LowerChars == <<"a","b","c","d","e","f","g","h","i","j","k","l","m",
                "n","o","p","q","r","s","t","u","v","w","x","y","z">>

OtherChars == {".", "/", "_", "0", "1", "2", "3", "4", "5", "6", "7", "8", "9"}

Alphabet ==
    {UpperChars[i] : i \in 1..Len(UpperChars)}
    \cup {LowerChars[i] : i \in 1..Len(LowerChars)} \cup OtherChars

\* the lower-case form of every character
LowerChar ==
    [c \in Alphabet |->
        IF \E i \in 1..Len(UpperChars) : UpperChars[i] = c
        THEN LowerChars[CHOOSE i \in 1..Len(UpperChars) : UpperChars[i] = c]
        ELSE c]

\* str.lower()
Lower(s) == [i \in 1..Len(s) |-> LowerChar[s[i]]]

\* str.endswith(suffix)
EndsWith(s, suffix) ==
    /\ Len(s) >= Len(suffix)
    /\ SubSeq(s, Len(s) - Len(suffix) + 1, Len(s)) = suffix

\* str.endswith(tuple of suffixes)
EndsWithAny(s, suffixes) == \E k \in 1..Len(suffixes) : EndsWith(s, suffixes[k])

\* str.rfind(c), 1-based; 0 when c does not occur
RFind(s, c) ==
    IF \E i \in 1..Len(s) : s[i] = c
    THEN CHOOSE i \in 1..Len(s) : s[i] = c /\ \A j \in (i+1)..Len(s) : s[j] # c
    ELSE 0

\* os.path.basename (posixpath): everything after the last '/'
basename(p) == SubSeq(p, RFind(p, "/") + 1, Len(p))

\* os.path.splitext (genericpath._splitext): the extension starts at the last
\* '.' of the last path component, unless only dots precede it there.
splitext(p) ==
    LET sepIndex == RFind(p, "/")
        dotIndex == RFind(p, ".")
    IN  IF /\ dotIndex > sepIndex
           /\ \E k \in (sepIndex + 1)..(dotIndex - 1) : p[k] # "."
        THEN <<SubSeq(p, 1, dotIndex - 1), SubSeq(p, dotIndex, Len(p))>>
        ELSE <<p, <<>>>>

-----------------------------------------------------------------------------
(* Results of calls: a value, or an exception on its way up *)

Ok(v) == [raised |-> FALSE, value |-> v]
Raise == [raised |-> TRUE, value |-> <<>>]

-----------------------------------------------------------------------------
(* Byte strings *)

WebP(n, m) == [fmt |-> "webp", px |-> n, mode |-> m]    \* a decodable image
Garbage == [fmt |-> "junk"]                             \* nothing decodes it
Container(k, es) == [fmt |-> k, entries |-> es]         \* a zip / rar / 7z file
Entry(n, d, r) == [name |-> n, data |-> d, ok |-> r]    \* r: the entry can be read

-----------------------------------------------------------------------------
(* Image conversion, src/main.py:42-104 *)

\* convert_to_rgb: alpha and palette modes are flattened onto white
convert_to_rgb(image) ==
    IF image.mode \in {"RGBA", "LA", "P"}
    THEN [image EXCEPT !.mode = "RGB"]
    ELSE image

\* convert_webp_to_jpeg: Image.open raises on bytes that are no image
convert_webp_to_jpeg(webp_data) ==
    IF webp_data.fmt # "webp"
    THEN Raise
    ELSE LET image == convert_to_rgb(webp_data)
         IN  Ok([fmt |-> "jpeg", px |-> image.px, mode |-> image.mode,
                 quality |-> JPEG_QUALITY])

-----------------------------------------------------------------------------
(* Container libraries: listing and reading entries *)

\* ZipFile.namelist / RarFile.namelist: every entry's name, in listing order
\* (a name stored twice is listed twice)
namelist(archive) == [i \in 1..Len(archive.entries) |-> archive.entries[i].name]

\* ZipFile.read(name) / RarFile.read(name): the name is looked up in the
\* name -> info map, in which a later entry replaces an earlier one of the
\* same name; an entry that cannot be decoded raises.
read(archive, name) ==
    LET es == archive.entries
        i == CHOOSE i \in 1..Len(es) :
                 es[i].name = name /\ \A j \in (i+1)..Len(es) : es[j].name # name
    IN  IF es[i].ok THEN Ok(es[i].data) ELSE Raise

DigitChars == <<"0", "1", "2", "3", "4", "5", "6", "7", "8", "9">>

\* py7zr: the i-th free name  name + "_%d" % i
RECURSIVE FreeName(_, _, _)
FreeName(name, fnames, i) ==
    LET outname == name \o <<"_", DigitChars[i + 1]>>
    IN  IF \A k \in 1..Len(fnames) : fnames[k] # outname
        THEN outname
        ELSE FreeName(name, fnames, i + 1)

\* py7zr: an entry whose name was already seen is extracted under a free name
RECURSIVE OutNames(_, _, _)
OutNames(es, i, fnames) ==
    IF i > Len(es) THEN fnames
    ELSE LET outname == IF \A k \in 1..Len(fnames) : fnames[k] # es[i].name
                        THEN es[i].name
                        ELSE FreeName(es[i].name, fnames, 0)
         IN  OutNames(es, i + 1, Append(fnames, outname))

\* SevenZipFile.readall(): decodes every entry of the archive and returns the
\* dict  output name -> content, in listing order; one entry that cannot be
\* decoded raises.
readall(archive) ==
    LET es == archive.entries
        fnames == OutNames(es, 1, <<>>)
    IN  IF \E i \in 1..Len(es) : ~es[i].ok
        THEN Raise
        ELSE Ok([i \in 1..Len(es) |-> <<fnames[i], es[i].data>>])

-----------------------------------------------------------------------------
(* Archive extraction, src/main.py:111-216 *)

\* variant: the extension is compared without lower()
IsWebpEntry_exact(file_name) == EndsWith(file_name, WEBP_EXTENSION)

\* file_name.lower().endswith(WEBP_EXTENSION)
IsWebpEntry(file_name) == EndsWith(Lower(file_name), WEBP_EXTENSION)

\* the for loop of _extract_from_zip; an exception from read() leaves the
\* function, and the local list with it
RECURSIVE ZipLoop(_, _, _, _)
ZipLoop(archive, names, i, images) ==
    IF i > Len(names) THEN Ok(images)
    ELSE IF IsWebpEntry(names[i])
         THEN LET webp_data == read(archive, names[i])
              IN  IF webp_data.raised
                  THEN Raise
                  ELSE ZipLoop(archive, names, i + 1,
                               Append(images, <<basename(names[i]), webp_data.value>>))
         ELSE ZipLoop(archive, names, i + 1, images)

_extract_from_zip(archive) == ZipLoop(archive, namelist(archive), 1, <<>>)

\* the for loop of _extract_from_rar
RECURSIVE RarLoop(_, _, _, _)
RarLoop(archive, names, i, images) ==
    IF i > Len(names) THEN Ok(images)
    ELSE IF IsWebpEntry(names[i])
         THEN LET webp_data == read(archive, names[i])
              IN  IF webp_data.raised
                  THEN Raise
                  ELSE RarLoop(archive, names, i + 1,
                               Append(images, <<basename(names[i]), webp_data.value>>))
         ELSE RarLoop(archive, names, i + 1, images)

_extract_from_rar(archive) == RarLoop(archive, namelist(archive), 1, <<>>)

\* the for loop of _extract_from_7z over all_files.items()
RECURSIVE SevenZipLoop(_, _, _)
SevenZipLoop(all_files, i, images) ==
    IF i > Len(all_files) THEN images
    ELSE IF IsWebpEntry(all_files[i][1])
         THEN SevenZipLoop(all_files, i + 1,
                           Append(images, <<basename(all_files[i][1]), all_files[i][2]>>))
         ELSE SevenZipLoop(all_files, i + 1, images)

_extract_from_7z(archive) ==
    LET all_files == readall(archive)
    IN  IF all_files.raised THEN Raise
        ELSE Ok(SevenZipLoop(all_files.value, 1, <<>>))

\* ZipFile(...) / RarFile(...) / SevenZipFile(...): raises on bytes that are
\* not a container of that format
OpenAs(file_data, kind) == IF file_data.fmt = kind THEN Ok(file_data) ELSE Raise

\* the try block of extract_webp_from_archive
ExtractBody(file_data, file_lower) ==
    IF EndsWith(file_lower, DOT_ZIP)
    THEN LET archive == OpenAs(file_data, "zip")
         IN  IF archive.raised THEN Raise ELSE _extract_from_zip(archive.value)
    ELSE IF EndsWith(file_lower, DOT_RAR)
    THEN LET archive == OpenAs(file_data, "rar")
         IN  IF archive.raised THEN Raise ELSE _extract_from_rar(archive.value)
    ELSE IF EndsWith(file_lower, DOT_7Z)
    THEN LET archive == OpenAs(file_data, "7z")
         IN  IF archive.raised THEN Raise ELSE _extract_from_7z(archive.value)
    ELSE Ok(<<>>)

\* variant: the ZIP and RAR loops append to the caller's list, so that what was
\* read before an exception survives it
RECURSIVE PartialLoop(_, _, _, _)
PartialLoop(archive, names, i, images) ==
    IF i > Len(names) THEN images
    ELSE IF EndsWith(Lower(names[i]), WEBP_EXTENSION)
         THEN LET webp_data == read(archive, names[i])
              IN  IF webp_data.raised
                  THEN images
                  ELSE PartialLoop(archive, names, i + 1,
                                   Append(images, <<basename(names[i]), webp_data.value>>))
         ELSE PartialLoop(archive, names, i + 1, images)

extract_webp_keep_partial(file_data, filename) ==
    LET body == ExtractBody(file_data, Lower(filename))
    IN  IF ~body.raised THEN Ok(body.value)
        ELSE IF file_data.fmt \in {"zip", "rar"}
             THEN Ok(PartialLoop(file_data, namelist(file_data), 1, <<>>))
             ELSE Ok(<<>>)

\* extract_webp_from_archive: images = []; try: images = ...; except: print;
\* return images
extract_webp_from_archive(file_data, filename) ==
    LET body == ExtractBody(file_data, Lower(filename))
    IN  IF body.raised THEN Ok(<<>>) ELSE Ok(body.value)

-----------------------------------------------------------------------------
(* File processing, src/main.py:223-287 *)

Upload(n, d) == [filename |-> n, data |-> d]

\* variant: the name is cut at its last dot, filename.rsplit('.', 1)[0] + '.jpg'
OutputName_lastdot(filename) ==
    (IF RFind(filename, ".") = 0 THEN filename
     ELSE SubSeq(filename, 1, RFind(filename, ".") - 1)) \o DOT_JPG

\* os.path.splitext(filename)[0] + '.jpg'
OutputName(filename) == splitext(filename)[1] \o DOT_JPG

\* the for loop of process_archive_file with its try/except around one image
RECURSIVE ConvertLoop(_, _, _)
ConvertLoop(extracted_images, i, converted) ==
    IF i > Len(extracted_images) THEN converted
    ELSE LET filename == extracted_images[i][1]
             jpeg_data == convert_webp_to_jpeg(extracted_images[i][2])
         IN  IF jpeg_data.raised
             THEN ConvertLoop(extracted_images, i + 1, converted)
             ELSE ConvertLoop(extracted_images, i + 1,
                              Append(converted, <<OutputName(filename), jpeg_data.value>>))

\* variant: the try/except is around the whole loop, so the first image that
\* fails to convert ends it
RECURSIVE AbortingLoop(_, _, _)
AbortingLoop(extracted_images, i, converted) ==
    IF i > Len(extracted_images) THEN converted
    ELSE LET jpeg_data == convert_webp_to_jpeg(extracted_images[i][2])
         IN  IF jpeg_data.raised
             THEN converted
             ELSE AbortingLoop(extracted_images, i + 1,
                               Append(converted, <<OutputName(extracted_images[i][1]),
                                                   jpeg_data.value>>))

process_archive_file_abort(uploaded_file) ==
    Ok(AbortingLoop(extract_webp_from_archive(uploaded_file.data,
                                              uploaded_file.filename).value, 1, <<>>))

process_archive_file(uploaded_file) ==
    LET extracted_images == extract_webp_from_archive(uploaded_file.data,
                                                      uploaded_file.filename)
    IN  IF extracted_images.raised THEN Raise
        ELSE Ok(ConvertLoop(extracted_images.value, 1, <<>>))

\* variant: no try/except around the conversion
process_webp_file_uncaught(uploaded_file) ==
    LET jpeg_data == convert_webp_to_jpeg(uploaded_file.data)
    IN  IF jpeg_data.raised
        THEN Raise
        ELSE Ok(<< <<OutputName(uploaded_file.filename), jpeg_data.value>> >>)

process_webp_file(uploaded_file) ==
    LET jpeg_data == convert_webp_to_jpeg(uploaded_file.data)
    IN  IF jpeg_data.raised
        THEN Ok(<<>>)
        ELSE Ok(<< <<OutputName(uploaded_file.filename), jpeg_data.value>> >>)

-----------------------------------------------------------------------------
(* Responses, src/main.py:294-325 and 365-405 *)

NoData == [fmt |-> "none"]

TextResponse(text, status) ==
    [status |-> status, mimetype |-> "text/html", download_name |-> <<>>,
     text |-> text, data |-> NoData]

\* send_file(..., as_attachment=True)
FileResponse(data, mimetype, download_name) ==
    [status |-> 200, mimetype |-> mimetype, download_name |-> download_name,
     text |-> "", data |-> data]

\* an exception that leaves the view function
ServerError == TextResponse("Internal Server Error", 500)

\* ZipFile.writestr in a loop: one entry per pair, appended in order, a
\* repeated name included
WriteZip(images) ==
    Container("zip",
              [i \in 1..Len(images) |->
                  [name |-> images[i][1], data |-> images[i][2],
                   ok |-> TRUE, compress_type |-> "ZIP_DEFLATED"]])

CONVERTED_ZIP == <<"c","o","n","v","e","r","t","e","d","_","i","m","a","g","e","s",
                   ".","z","i","p">>

create_zip_response(images) ==
    FileResponse(WriteZip(images), "application/zip", CONVERTED_ZIP)

\* line 366
NoFilesResponse == TextResponse("Nenhum arquivo enviado", 400)

\* line 392
NoneValidResponse == TextResponse("Nenhum arquivo .webp válido encontrado", 400)

\* variant: a single image is bundled like several
send_single_zipped(images) == create_zip_response(images)

\* lines 396-402: the only converted image, sent as it is
send_single(images) ==
    FileResponse(images[1][2], "image/jpeg", images[1][1])

-----------------------------------------------------------------------------
(* The route convert(), src/main.py:343-405 *)

\* variant: the suffix is compared without lower()
IsArchiveUpload_exact(filename) == EndsWithAny(filename, SUPPORTED_ARCHIVES)

\* filename_lower.endswith(SUPPORTED_ARCHIVES)
IsArchiveUpload(filename) == EndsWithAny(Lower(filename), SUPPORTED_ARCHIVES)

\* filename_lower.endswith(WEBP_EXTENSION)
IsWebpUpload(filename) == EndsWith(Lower(filename), WEBP_EXTENSION)

\* variant: the new images are put in front of the list
Extend_front(list, more) == more \o list

\* list.extend
Extend(list, more) == list \o more

-----------------------------------------------------------------------------
(* Inputs of the upload runs *)

FN_x_webp == <<"x", ".", "w", "e", "b", "p">>
FN_Photo_WEBP == <<"P", "h", "o", "t", "o", ".", "W", "E", "B", "P">>
FN_notes_txt == <<"n", "o", "t", "e", "s", ".", "t", "x", "t">>
FN_a_webp_zip == <<"a", ".", "w", "e", "b", "p", ".", "z", "i", "p">>
FN_B_RAR == <<"B", ".", "R", "A", "R">>
FN_c_7z == <<"c", ".", "7", "z">>
EN_a_x_webp == <<"a", "/", "x", ".", "w", "e", "b", "p">>
EN_b_x_webp == <<"b", "/", "x", ".", "w", "e", "b", "p">>

Image1 == WebP(1, "RGB")
Image2 == WebP(2, "RGBA")

TwoImages == <<Entry(EN_a_x_webp, Image1, TRUE), Entry(EN_b_x_webp, Image2, TRUE)>>

InnerListings ==
    { TwoImages,
      <<Entry(EN_a_x_webp, Garbage, TRUE), Entry(EN_b_x_webp, Image2, TRUE)>>,
      <<Entry(EN_a_x_webp, Image1, TRUE), Entry(EN_b_x_webp, Garbage, FALSE)>> }

Uploads ==
    {Upload(FN_x_webp, Image1), Upload(FN_x_webp, Image2), Upload(FN_x_webp, Garbage),
     Upload(FN_Photo_WEBP, Image2)}
    \cup {Upload(<<>>, Image1), Upload(FN_notes_txt, Image1)}
    \cup {Upload(FN_a_webp_zip, Container("zip", es)) : es \in InnerListings}
    \cup {Upload(FN_a_webp_zip, Garbage),
          Upload(FN_B_RAR, Container("rar", TwoImages)),
          Upload(FN_c_7z, Container("7z", TwoImages))}

SeqsUpTo(S, n) == UNION {[1..k -> S] : k \in 0..n}

-----------------------------------------------------------------------------
(* Values of the variables a run does not use *)

NoResponse == TextResponse("", 0)
Pending == [done |-> FALSE, raised |-> FALSE, value |-> <<>>]
Done(r) == [done |-> TRUE, raised |-> r.raised, value |-> r.value]
NoRets == [zip |-> Pending, rar |-> Pending, sevenz |-> Pending, conv |-> Pending]
NoNames == [bare |-> Pending, entry |-> Pending]

-----------------------------------------------------------------------------
(* One request to convert() *)

Init ==
    /\ files \in SeqsUpTo(Uploads, MaxFiles)
    /\ idx = 0
    /\ converted_images = <<>>
    /\ response = NoResponse
    /\ pc = "start"
    /\ listing = <<>>
    /\ intact = TRUE
    /\ rets = NoRets
    /\ src_name = <<>>
    /\ out_names = NoNames

others == <<listing, intact, rets, src_name, out_names>>

\* lines 365-366: if not files
NoFilesSent ==
    /\ pc = "start"
    /\ files = <<>>
    /\ response' = NoFilesResponse
    /\ pc' = "done"
    /\ UNCHANGED <<files, idx, converted_images, others>>

\* line 369
StartLoop ==
    /\ pc = "start"
    /\ files # <<>>
    /\ converted_images' = <<>>
    /\ pc' = "loop"
    /\ UNCHANGED <<files, idx, response, others>>

\* lines 374-375: if not uploaded_file.filename: continue
SkipUnnamed ==
    /\ pc = "loop"
    /\ idx < Len(files)
    /\ files[idx + 1].filename = <<>>
    /\ idx' = idx + 1
    /\ UNCHANGED <<files, converted_images, response, pc, others>>

\* an item's result joins the list; an exception ends the request
Collect(result) ==
    IF result.raised
    THEN /\ response' = ServerError
         /\ pc' = "done"
         /\ UNCHANGED converted_images
    ELSE /\ converted_images' = Extend(converted_images, result.value)
         /\ UNCHANGED <<response, pc>>

\* lines 381-383
ConvertArchive ==
    /\ pc = "loop"
    /\ idx < Len(files)
    /\ files[idx + 1].filename # <<>>
    /\ IsArchiveUpload(files[idx + 1].filename)
    /\ Collect(process_archive_file(files[idx + 1]))
    /\ idx' = idx + 1
    /\ UNCHANGED <<files, others>>

\* lines 386-388
ConvertWebp ==
    /\ pc = "loop"
    /\ idx < Len(files)
    /\ files[idx + 1].filename # <<>>
    /\ ~IsArchiveUpload(files[idx + 1].filename)
    /\ IsWebpUpload(files[idx + 1].filename)
    /\ Collect(process_webp_file(files[idx + 1]))
    /\ idx' = idx + 1
    /\ UNCHANGED <<files, others>>

\* neither branch of lines 381-388 is taken
IgnoreUnrecognized ==
    /\ pc = "loop"
    /\ idx < Len(files)
    /\ files[idx + 1].filename # <<>>
    /\ ~IsArchiveUpload(files[idx + 1].filename)
    /\ ~IsWebpUpload(files[idx + 1].filename)
    /\ idx' = idx + 1
    /\ UNCHANGED <<files, converted_images, response, pc, others>>

\* lines 391-392: if not converted_images
NoneConverted ==
    /\ pc = "loop"
    /\ idx = Len(files)
    /\ converted_images = <<>>
    /\ response' = NoneValidResponse
    /\ pc' = "done"
    /\ UNCHANGED <<files, idx, converted_images, others>>

\* lines 395-402: if len(converted_images) == 1
SendSingle ==
    /\ pc = "loop"
    /\ idx = Len(files)
    /\ converted_images # <<>>
    /\ Len(converted_images) = 1
    /\ response' = send_single(converted_images)
    /\ pc' = "done"
    /\ UNCHANGED <<files, idx, converted_images, others>>

\* line 405
SendZip ==
    /\ pc = "loop"
    /\ idx = Len(files)
    /\ converted_images # <<>>
    /\ Len(converted_images) # 1
    /\ response' = create_zip_response(converted_images)
    /\ pc' = "done"
    /\ UNCHANGED <<files, idx, converted_images, others>>

Next ==
    \/ NoFilesSent
    \/ StartLoop
    \/ SkipUnnamed
    \/ ConvertArchive
    \/ ConvertWebp
    \/ IgnoreUnrecognized
    \/ NoneConverted
    \/ SendSingle
    \/ SendZip

Spec == Init /\ [][Next]_vars

-----------------------------------------------------------------------------
(* Extraction runs: one entry list handed to each backend through          *)
(* extract_webp_from_archive, and to process_archive_file as a ZIP upload  *)

FN_a_zip == <<"a", ".", "z", "i", "p">>
EN_a_webp == <<"a", ".", "w", "e", "b", "p">>
EN_b_png == <<"b", ".", "p", "n", "g">>
EN_sub_c_WEBP == <<"s", "u", "b", "/", "c", ".", "W", "E", "B", "P">>

\* the content of an entry that cannot be read is never seen
ListedEntries ==
    {Entry(n, c[1], c[2]) : n \in {EN_a_webp, EN_b_png, EN_sub_c_WEBP},
                            c \in {<<Image1, TRUE>>, <<Garbage, TRUE>>, <<Garbage, FALSE>>}}

\* the uploaded bytes, as a container of the given format
FileData(kind) == IF intact THEN Container(kind, listing) ELSE Garbage

request == <<files, idx, converted_images, response, pc>>

InitExtract ==
    /\ \/ intact = TRUE /\ listing \in SeqsUpTo(ListedEntries, MaxEntries)
       \/ intact = FALSE /\ listing = <<>>
    /\ rets = NoRets
    /\ files = <<>>
    /\ idx = 0
    /\ converted_images = <<>>
    /\ response = NoResponse
    /\ pc = "start"
    /\ src_name = <<>>
    /\ out_names = NoNames

ExtractZip ==
    /\ ~rets.zip.done
    /\ rets' = [rets EXCEPT !.zip = Done(extract_webp_from_archive(FileData("zip"), FN_a_zip))]
    /\ UNCHANGED <<request, listing, intact, src_name, out_names>>

ExtractRar ==
    /\ ~rets.rar.done
    /\ rets' = [rets EXCEPT !.rar = Done(extract_webp_from_archive(FileData("rar"), FN_B_RAR))]
    /\ UNCHANGED <<request, listing, intact, src_name, out_names>>

Extract7z ==
    /\ ~rets.sevenz.done
    /\ rets' = [rets EXCEPT
                   !.sevenz = Done(extract_webp_from_archive(FileData("7z"), FN_c_7z))]
    /\ UNCHANGED <<request, listing, intact, src_name, out_names>>

ProcessZip ==
    /\ ~rets.conv.done
    /\ rets' = [rets EXCEPT
                   !.conv = Done(process_archive_file(Upload(FN_a_zip, FileData("zip"))))]
    /\ UNCHANGED <<request, listing, intact, src_name, out_names>>

NextExtract == ExtractZip \/ ExtractRar \/ Extract7z \/ ProcessZip

SpecExtract == InitExtract /\ [][NextExtract]_vars

-----------------------------------------------------------------------------
(* Naming runs: one source name, as a bare upload and as an archive entry *)

StemChars == {"a", ".", "/"}
SourceNames ==
    {stem \o ext : stem \in SeqsUpTo(StemChars, MaxStem),
                   ext \in {WEBP_EXTENSION, <<".", "W", "E", "B", "P">>}}

InitName ==
    /\ src_name \in SourceNames
    /\ out_names = NoNames
    /\ files = <<>>
    /\ idx = 0
    /\ converted_images = <<>>
    /\ response = NoResponse
    /\ pc = "start"
    /\ listing = <<>>
    /\ intact = TRUE
    /\ rets = NoRets

NameBare ==
    /\ ~out_names.bare.done
    /\ out_names' = [out_names EXCEPT
                        !.bare = Done(process_webp_file(Upload(src_name, Image1)))]
    /\ UNCHANGED <<request, listing, intact, rets, src_name>>

NameEntry ==
    /\ ~out_names.entry.done
    /\ out_names' = [out_names EXCEPT
                        !.entry = Done(process_archive_file(
                            Upload(FN_a_zip,
                                   Container("zip", <<Entry(src_name, Image1, TRUE)>>))))]
    /\ UNCHANGED <<request, listing, intact, rets, src_name>>

NextName == NameBare \/ NameEntry

SpecName == InitName /\ [][NextName]_vars

-----------------------------------------------------------------------------
(* Properties of one request (Spec) *)

JpegOf(data) == convert_webp_to_jpeg(data).value

\* C1: the response shape depends only on the number n of converted images:
\* n = 0 is the HTTP 400 failure, n = 1 a Single image/jpeg payload named by
\* that image's output name and carrying its JPEG bytes as they are, n >= 2 an
\* application/zip payload named converted_images.zip.
C1_ShapeByCardinality ==
    pc = "done" =>
        LET n == Len(converted_images)
        IN  /\ n = 0 => /\ response.status = 400
                        /\ response.data = NoData
            /\ n = 1 => /\ response.status = 200
                        /\ response.mimetype = "image/jpeg"
                        /\ response.download_name = converted_images[1][1]
                        /\ response.data = converted_images[1][2]
                        /\ response.data.fmt = "jpeg"
            /\ n >= 2 => /\ response.status = 200
                         /\ response.mimetype = "application/zip"
                         /\ response.download_name = CONVERTED_ZIP
                         /\ response.data.fmt = "zip"

\* one archive holding two WebP entries is answered with an Archive payload
C1_Witness ==
    /\ pc = "done"
    /\ files = <<Upload(FN_a_webp_zip, Container("zip", TwoImages))>>
    /\ Len(converted_images) = 2
    /\ response.mimetype = "application/zip"

\* what one uploaded item adds to the list, by the branch convert() takes
OwnResult(item) ==
    IF item.filename = <<>> THEN <<>>
    ELSE IF IsArchiveUpload(item.filename) THEN process_archive_file(item).value
    ELSE IF IsWebpUpload(item.filename) THEN process_webp_file(item).value
    ELSE <<>>

RECURSIVE InUploadOrder(_, _)
InUploadOrder(fs, k) ==
    IF k = 0 THEN <<>> ELSE InUploadOrder(fs, k - 1) \o OwnResult(fs[k])

\* C5: at every point of the request the aggregate list is the concatenation,
\* in upload order, of the results of the items consumed so far; what was
\* appended earlier stays where it is.
C5_DiscoveryOrder == converted_images = InUploadOrder(files, idx)

\* an archive's two images, in listing order, precede a later bare upload's
C5_Witness ==
    /\ pc = "done"
    /\ files = <<Upload(FN_a_webp_zip, Container("zip", TwoImages)),
                 Upload(FN_Photo_WEBP, Image2)>>
    /\ converted_images = << <<<<"x", ".", "j", "p", "g">>, JpegOf(Image1)>>,
                             <<<<"x", ".", "j", "p", "g">>, JpegOf(Image2)>>,
                             <<<<"P", "h", "o", "t", "o", ".", "j", "p", "g">>,
                               JpegOf(Image2)>> >>

\* C6: for two or more converted images, also when two of them have the same
\* output name, the ZIP lists exactly their output names, one entry each, and
\* looking each output name up in the ZIP returns the bytes of the converted
\* image of that name; no directory component is added.
C6_ZipHoldsEveryImage ==
    (pc = "done" /\ Len(converted_images) >= 2) =>
        /\ response.data.fmt = "zip"
        /\ namelist(response.data) =
               [i \in 1..Len(converted_images) |-> converted_images[i][1]]
        /\ \A i \in 1..Len(converted_images) :
               read(response.data, converted_images[i][1]) = Ok(converted_images[i][2])

\* an upload whose conversion or extraction fails as a whole
FailedItem(item) ==
    \/ /\ IsWebpUpload(item.filename)
       /\ ~IsArchiveUpload(item.filename)
       /\ item.data.fmt # "webp"
    \/ /\ IsArchiveUpload(item.filename)
       /\ item.data.fmt \notin {"zip", "rar", "7z"}

\* C7: a failure confined to one uploaded item makes that item contribute
\* nothing and never aborts the request: no exception leaves convert(), every
\* image of every other item is in the final list, and the only failure
\* answered to the caller is HTTP 400 for zero converted images.
C7_FailureIsolated ==
    /\ response.status # 500
    /\ pc = "done" =>
           LET own == [i \in 1..Len(files) |-> OwnResult(files[i])]
           IN  /\ \A i \in 1..Len(files) :
                      (files[i].filename # <<>> /\ FailedItem(files[i])) => own[i] = <<>>
               /\ \A i \in 1..Len(files) : \A k \in 1..Len(own[i]) :
                      \E q \in 1..Len(converted_images) : converted_images[q] = own[i][k]
               /\ response.status \in {200, 400}
               /\ (response.status = 400) <=> (converted_images = <<>>)

\* a good image between an undecodable bare upload and a corrupt archive
C7_Witness ==
    /\ pc = "done"
    /\ files = <<Upload(FN_x_webp, Garbage), Upload(FN_Photo_WEBP, Image2),
                 Upload(FN_a_webp_zip, Garbage)>>
    /\ converted_images = << <<<<"P", "h", "o", "t", "o", ".", "j", "p", "g">>,
                               JpegOf(Image2)>> >>
    /\ response.status = 200

\* the class of an upload as the claim gives it
ClaimKind(filename) ==
    IF filename = <<>> THEN "none"
    ELSE IF \E suffix \in {DOT_ZIP, DOT_RAR, DOT_7Z} : EndsWith(Lower(filename), suffix)
         THEN "archive"
    ELSE IF EndsWith(Lower(filename), WEBP_EXTENSION) THEN "webp"
    ELSE "none"

ClaimContribution(item) ==
    CASE ClaimKind(item.filename) = "archive" -> process_archive_file(item).value
      [] ClaimKind(item.filename) = "webp" -> process_webp_file(item).value
      [] OTHER -> <<>>

RECURSIVE ClaimAggregate(_, _)
ClaimAggregate(fs, k) ==
    IF k = 0 THEN <<>> ELSE ClaimAggregate(fs, k - 1) \o ClaimContribution(fs[k])

\* the upload without its unrecognized and unnamed items
Recognized(fs) == SelectSeq(fs, LAMBDA f : ClaimKind(f.filename) # "none")

\* the whole route applied to an upload
RouteResponse(fs) ==
    IF fs = <<>> THEN NoFilesResponse
    ELSE LET images == ClaimAggregate(fs, Len(fs))
         IN  IF images = <<>> THEN NoneValidResponse
             ELSE IF Len(images) = 1 THEN send_single(images)
             ELSE create_zip_response(images)

\* the payload of a response: what spec section 4.4 calls Empty, Single or
\* Archive, without the text that goes with a failure
Payload(r) ==
    [status |-> r.status, mimetype |-> r.mimetype, download_name |-> r.download_name,
     data |-> r.data]

-----------------------------------------------------------------------------
(* Properties of extraction (SpecExtract) *)

\* the listed entries whose name, lowercased, ends with .webp
Matching(es) == SelectSeq(es, LAMBDA e : EndsWith(Lower(e.name), WEBP_EXTENSION))

\* every entry can be read and the container opens
Readable == intact /\ \A i \in 1..Len(listing) : listing[i].ok

DistinctNames(es) ==
    \A i, j \in 1..Len(es) : i # j => es[i].name # es[j].name

\* each matching entry with its own bytes
WithOwnBytes(es) ==
    LET m == Matching(es)
    IN  [i \in 1..Len(m) |-> <<basename(m[i].name), m[i].data>>]

\* each matching entry with the bytes of the last entry of its name
WithLookedUpBytes(es) ==
    LET m == Matching(es)
        last(n) == CHOOSE i \in 1..Len(es) :
                       es[i].name = n /\ \A j \in (i+1)..Len(es) : es[j].name # n
    IN  [i \in 1..Len(m) |-> <<basename(m[i].name), es[last(m[i].name)].data>>]

\* the matching entries a ZIP or RAR read fails on; the least is the k of C2
FailingReads(es) ==
    {k \in 1..Len(Matching(es)) : read(Container("zip", es), Matching(es)[k].name).raised}

Least(S) == CHOOSE k \in S : \A j \in S : k <= j

\* a structural failure of the given backend on the uploaded bytes
StructuralFailure(kind) ==
    \/ ~intact
    \/ kind \in {"zip", "rar"} /\ FailingReads(listing) # {}
    \/ kind = "7z" /\ \E i \in 1..Len(listing) : ~listing[i].ok

\* C2 as stated: extract_webp_from_archive never raises, and a failure on the
\* k-th matching entry returns the k-1 matching entries read before it.
C2_Original ==
    (rets.zip.done /\ intact /\ FailingReads(listing) # {}) =>
        /\ ~rets.zip.raised
        /\ rets.zip.value =
               [j \in 1..(Least(FailingReads(listing)) - 1) |->
                   <<basename(Matching(listing)[j].name),
                     read(Container("zip", listing), Matching(listing)[j].name).value>>]

\* C2 as amended: extract_webp_from_archive never raises, and on a structural
\* failure it returns the empty sequence, whatever was read before the failure.
C2_FailureGivesNothing ==
    /\ rets.zip.done =>
           ~rets.zip.raised /\ (StructuralFailure("zip") => rets.zip.value = <<>>)
    /\ rets.rar.done =>
           ~rets.rar.raised /\ (StructuralFailure("rar") => rets.rar.value = <<>>)
    /\ rets.sevenz.done =>
           ~rets.sevenz.raised /\ (StructuralFailure("7z") => rets.sevenz.value = <<>>)

\* the second matching entry cannot be read; the first, readable one is dropped
C2_Witness ==
    /\ rets.zip.done
    /\ listing = <<Entry(EN_a_webp, Image1, TRUE), Entry(EN_sub_c_WEBP, Garbage, FALSE)>>
    /\ Least(FailingReads(listing)) = 2
    /\ rets.zip = Done(Ok(<<>>))

\* the extracted images whose conversion succeeds, converted, in order
ConvertedOf(images) ==
    LET good == SelectSeq(images, LAMBDA e : ~convert_webp_to_jpeg(e[2]).raised)
    IN  [i \in 1..Len(good) |-> <<OutputName(good[i][1]), JpegOf(good[i][2])>>]

\* C3: process_archive_file returns exactly one converted image for each
\* extracted image whose conversion succeeds, in extraction order, and none
\* for the others; a failed image does not stop the ones after it.
C3_SkipsOnlyFailed ==
    rets.conv.done =>
        /\ ~rets.conv.raised
        /\ rets.conv.value =
               ConvertedOf(extract_webp_from_archive(FileData("zip"), FN_a_zip).value)

\* a corrupted WebP before a valid one: exactly the valid one is returned
C3_Witness ==
    /\ rets.conv.done
    /\ listing = <<Entry(EN_a_webp, Garbage, TRUE), Entry(EN_sub_c_WEBP, Image1, TRUE)>>
    /\ rets.conv.value = << <<<<"c", ".", "j", "p", "g">>, JpegOf(Image1)>> >>

\* C4 as stated: a readable archive yields exactly its entries named *.webp
\* (any case), once each, in listing order, each as (basename, the entry's
\* bytes).
C4_Original ==
    (rets.zip.done /\ Readable) => rets.zip.value = WithOwnBytes(listing)

\* C4 as amended: the same for an archive whose entry names are distinct; when
\* a ZIP or RAR lists a name more than once, each occurrence is emitted with
\* the bytes of the last entry of that name.
C4_FilterByExtension ==
    Readable =>
        /\ rets.zip.done => rets.zip.value = WithLookedUpBytes(listing)
        /\ rets.rar.done => rets.rar.value = WithLookedUpBytes(listing)
        /\ DistinctNames(listing) =>
               /\ rets.zip.done => rets.zip.value = WithOwnBytes(listing)
               /\ rets.rar.done => rets.rar.value = WithOwnBytes(listing)
               /\ rets.sevenz.done => rets.sevenz.value = WithOwnBytes(listing)

\* a.webp, b.png, sub/c.WEBP yields a.webp and c.WEBP
C4_Witness ==
    /\ rets.zip.done
    /\ listing = <<Entry(EN_a_webp, Image1, TRUE), Entry(EN_b_png, Image1, TRUE),
                   Entry(EN_sub_c_WEBP, Garbage, TRUE)>>
    /\ rets.zip.value = << <<EN_a_webp, Image1>>,
                           <<<<"c", ".", "W", "E", "B", "P">>, Garbage>> >>

\* C10: for one entry listing the three backends return the same sequence of
\* (basename, bytes) pairs, also with an unreadable entry that is not a .webp
\* and with two entries of one name.
C10_BackendsAgree ==
    (rets.zip.done /\ rets.rar.done /\ rets.sevenz.done) =>
        /\ rets.zip.value = rets.rar.value
        /\ rets.zip.value = rets.sevenz.value

-----------------------------------------------------------------------------
(* Properties of naming (SpecName) *)

\* the name up to its last dot
UpToLastDot(name) == SubSeq(name, 1, RFind(name, ".") - 1)

\* only dots stand between the last '/' and the last dot of the name
OnlyLeadingDots(name) ==
    \A k \in (RFind(name, "/") + 1)..(RFind(name, ".") - 1) : name[k] = "."

ProducedName(r) == r.value[1][1]

AmendedStem(name) == IF OnlyLeadingDots(name) THEN name ELSE UpToLastDot(name)

====
